---- MODULE Spec2Model ----
(***************************************************************************)
(* A model of src/main.py, the Astro Engine API: the module-level handles  *)
(* ts and eph, the request validators, health_check, to_utc,               *)
(* ecliptic_longitude, compute_asc_mc and the chart handler, served        *)
(* concurrently for several requests (FastAPI runs a plain def endpoint    *)
(* in a thread pool, so handlers interleave at every statement).           *)
(*                                                                         *)
(* Units.  Angles are fixed-point thousandths of a degree (360 degrees is  *)
(* 360000).  Civil times and instants are minutes counted from             *)
(* 1990-01-01 00:00.  Sidereal time is in thousandths of an hour.          *)
(* A float component of a position vector is a record [s, m]: sign s in    *)
(* {1, -1} and magnitude m, so that IEEE negative zero ([s |-> -1, m |-> 0])*)
(* is told apart from positive zero, as math.atan2 tells them apart.       *)
(***************************************************************************)
EXTENDS Integers, Sequences, FiniteSets, TLC

VARIABLES
    phase,      \* "importing" while the module body runs, then "serving"
    ts,         \* module-level timescale handle (line 12)
    eph,        \* module-level ephemeris handle (line 14)
    pc,         \* pc[r]: position of request r's handler
    req,        \* req[r]: the ChartRequest of request r
    dt_local,   \* dt_local[r]: local of chart (line 115)
    local_zone, \* local_zone[r]: local of to_utc (line 61)
    t,          \* t[r]: local of chart, the Skyfield time (line 126)
    idx,        \* idx[r]: position of the for loop over PLANET_KEYS (line 133)
    planets,    \* planets[r]: local dict of chart (line 132)
    sampled,    \* sampled[r]: the <<catalog key, instant>> pairs passed to ecliptic_longitude
    resp,       \* resp[r]: what the caller of request r received
    health      \* what the last health_check returned

vars == <<phase, ts, eph, pc, req, dt_local, local_zone, t, idx, planets,
          sampled, resp, health>>

----------------------------------------------------------------------------
(* Bounds of the model *)

\* number of observer longitudes requests are drawn from
NumLons == 2

Requests == {1, 2}

----------------------------------------------------------------------------
(* Program constants *)

\* 360.0 of lines 79, 94, 99, in thousandths of a degree
FullCircle == 360000
\* 90.0 of line 99
QuarterCircle == 90000
\* 15.0 of line 90: degrees per sidereal hour
DegPerHour == 15
\* minutes in a day, "%H:%M" of line 115
DayMinutes == 1440
\* first and last instant DE421 covers (1899-07-29 .. 2053-10-09), in minutes
EphStart == -47560320
EphEnd == 33540480
\* Greenwich apparent sidereal time at 1990-01-01 00:00 UT, thousandths of an hour
GastEpoch == 6700
\* sidereal gain per solar day (3 min 56 s) and sidereal time per solar minute,
\* thousandths of an hour (the latter times 1000)
GastPerDay == 66
GastPerMinuteE3 == 16712
SiderealDay == 24000

None == "<None>"
NoTime == -1

\* the dict with its last entry lost
PLANET_KEYS_without_pluto ==
    << <<"sun", "sun">>,
       <<"moon", "moon">>,
       <<"mercury", "mercury">>,
       <<"venus", "venus">>,
       <<"mars", "mars">>,
       <<"jupiter", "jupiter barycenter">>,
       <<"saturn", "saturn barycenter">>,
       <<"uranus", "uranus barycenter">>,
       <<"neptune", "neptune barycenter">> >>

\* lines 16-27: the dict, in insertion order, as <<name, catalog key>> pairs
PLANET_KEYS ==
    << <<"sun", "sun">>,
       <<"moon", "moon">>,
       <<"mercury", "mercury">>,
       <<"venus", "venus">>,
       <<"mars", "mars">>,
       <<"jupiter", "jupiter barycenter">>,
       <<"saturn", "saturn barycenter">>,
       <<"uranus", "uranus barycenter">>,
       <<"neptune", "neptune barycenter">>,
       <<"pluto", "pluto barycenter">> >>

CatalogKeys == {"sun", "moon", "mercury", "venus", "mars", "jupiter barycenter",
                "saturn barycenter", "uranus barycenter", "neptune barycenter",
                "pluto barycenter"}

----------------------------------------------------------------------------
(* Inputs: the field values requests are drawn from *)

\* the calendar dates datetime.strptime(v, "%Y-%m-%d") parses, as days from 1990-01-01;
\* 2060-01-15 lies after the end of DE421
DateDays == ("1990-05-14" :> 133) @@ ("2060-01-15" :> 25581)

\* the times datetime.strptime(v, "%H:%M") parses, as minutes from midnight
TimeMinutes == ("15:30" :> 930) @@ ("23:45" :> 1425)

DateInputs == {"1990-05-14", "2060-01-15", "14/05/1990"}
TimeInputs == {"15:30", "23:45", "3pm"}
\* "" is what a client sends for an empty timezone field: any str passes the schema
TimezoneInputs == {"America/Toronto", "UTC", "Mars/Nonexistent", ""}
LatInputs == {43650, -33870}
LonInputs == {(0 - 79380) + 90000 * k : k \in 0 .. (NumLons - 1)}

\* the request of the docstrings of lines 30-34
BaseRequest ==
    [date |-> "1990-05-14", time |-> "15:30", timezone |-> "America/Toronto",
     lat |-> 43650, lon |-> 0 - 79380]

\* the requests served: every timezone and observer at the base date and
\* time, and the base request with its date or its time replaced
ChartRequest ==
    { q \in [date : DateInputs, time : TimeInputs, timezone : TimezoneInputs,
             lat : LatInputs, lon : LonInputs] :
        \/ q.date = BaseRequest.date /\ q.time = BaseRequest.time
        \/ /\ q.timezone = BaseRequest.timezone
           /\ q.lat = BaseRequest.lat
           /\ q.lon = BaseRequest.lon
           /\ (q.date = BaseRequest.date \/ q.time = BaseRequest.time) }

NoRequest == [date |-> "", time |-> "", timezone |-> "", lat |-> 0, lon |-> 0]

----------------------------------------------------------------------------
(* Request validation, lines 36-52 *)

validate_date(v) == v \in DOMAIN DateDays

validate_time(v) == v \in DOMAIN TimeMinutes

\* line 115: strptime of "<date> <time>" with "%Y-%m-%d %H:%M"
StrptimeOk(date, time) == date \in DOMAIN DateDays /\ time \in DOMAIN TimeMinutes

Strptime(date, time) == DateDays[date] * DayMinutes + TimeMinutes[time]

----------------------------------------------------------------------------
(* to_utc, lines 58-68 *)

\* the zone files dateutil finds on the host
ZoneFiles == {"America/Toronto", "UTC"}

\* what tz.gettz("") gives: dateutil takes an empty name as "no name" and
\* returns the host's local zone (/etc/localtime or tzlocal())
HostLocalZone == "tzlocal()"

\* line 61, dateutil's tz.gettz: the zone of a name with a zone file, the
\* host's local zone for the empty name, None for every other name
gettz(tz_name) ==
    IF tz_name = "" THEN HostLocalZone
    ELSE IF tz_name \in ZoneFiles THEN tz_name
    ELSE None

\* Toronto keeps daylight time from 1990-04-01 02:00 to 1990-10-28 02:00
TorontoDst(dt) == dt >= 90 * DayMinutes + 120 /\ dt < 300 * DayMinutes + 120

\* the offset from UTC, in minutes, that a zone's rules give a local time;
\* the host is taken to keep UTC+02:00
utcoffset(zone, dt) ==
    IF zone = "America/Toronto" THEN (IF TorontoDst(dt) THEN 0 - 240 ELSE 0 - 300)
    ELSE IF zone = HostLocalZone THEN 120
    ELSE 0

\* lines 60-65: True when to_utc raises ValueError
to_utc_raises(tz_name) == gettz(tz_name) = None

\* lines 63, 65: the message of that ValueError
UnknownTimezoneMessage(tz_name) == <<"Unknown timezone: ", tz_name>>

\* lines 67-68: replace(tzinfo=local_zone).astimezone(tz.UTC)
to_utc(dt, tz_name) == dt - utcoffset(gettz(tz_name), dt)

\* line 126: ts.from_datetime
from_datetime(dt_utc) == dt_utc

----------------------------------------------------------------------------
(* The ephemeris: what eph[key] and location.at(t).observe(body) give *)

Pos(m) == [s |-> 1, m |-> m]
Neg(m) == [s |-> 0 - 1, m |-> m]

\* ecliptic position vectors <<x, y, z>> of a well-formed kernel
PlanetVectors ==
    << <<Pos(1), Pos(0), Pos(0)>>,
       <<Pos(1), Pos(1), Pos(1)>>,
       <<Pos(0), Pos(1), Neg(1)>>,
       <<Neg(1), Pos(2), Pos(0)>>,
       <<Neg(1), Pos(0), Pos(1)>>,
       <<Neg(1), Neg(0), Pos(0)>>,
       <<Neg(2), Neg(1), Pos(1)>>,
       <<Pos(0), Neg(1), Pos(0)>>,
       <<Pos(2), Neg(1), Neg(1)>>,
       <<Pos(1), Neg(0), Pos(2)>>,
       <<Pos(0), Pos(0), Pos(1)>>,
       <<Pos(2), Pos(2), Neg(0)>> >>

\* the vectors of a faulty provider: some are the zero vector
FaultyVectors ==
    << <<Pos(0), Pos(0), Pos(0)>>,
       <<Pos(1), Pos(2), Pos(0)>>,
       <<Neg(0), Pos(0), Pos(0)>>,
       <<Neg(2), Pos(1), Pos(0)>>,
       <<Neg(0), Neg(0), Neg(0)>> >>

\* line 14: what load("de421.bsp") may find on disk: DE421, a kernel that
\* lacks one body, or a provider that answers with zero vectors
Kernels ==
    { [name |-> "de421", keys |-> CatalogKeys, vectors |-> PlanetVectors],
      [name |-> "no-mars", keys |-> CatalogKeys \ {"mars"}, vectors |-> PlanetVectors],
      [name |-> "no-pluto", keys |-> CatalogKeys \ {"pluto barycenter"},
       vectors |-> PlanetVectors],
      [name |-> "faulty", keys |-> CatalogKeys, vectors |-> FaultyVectors] }

NoKernel == [name |-> None, keys |-> {}, vectors |-> << >>]

KeyIndex(key) == CHOOSE i \in 1 .. Len(PLANET_KEYS) : PLANET_KEYS[i][2] = key

\* line 134: eph[key] raises when the kernel has no such segment
lookup_raises(kernel, key) == key \notin kernel.keys

\* lines 73: observe raises EphemerisRangeError outside the kernel's dates
observe_raises(kernel, instant) == instant < EphStart \/ instant > EphEnd

\* lines 73, 77, 78: the ecliptic position of the body, in km, seen from the
\* observer at the instant (a deterministic stand-in for the ephemeris)
observe(kernel, key, instant, observer) ==
    kernel.vectors[((KeyIndex(key) + (instant \div 30)
                     + (IF observer.lat < 0 THEN 1 ELSE 0)) % Len(kernel.vectors)) + 1]

IsZeroVector(v) == v[1].m = 0 /\ v[2].m = 0 /\ v[3].m = 0

----------------------------------------------------------------------------
(* ecliptic_longitude, lines 70-80 *)

\* atan of n/d in thousandths of a degree, for 0 < n, 0 < d
AtanDeg(n, d) ==
    IF n = d THEN 45000
    ELSE IF 2 * n = d THEN 26565
    ELSE IF n = 2 * d THEN 63435
    ELSE IF 3 * n = d THEN 18435
    ELSE IF n = 3 * d THEN 71565
    ELSE IF 3 * n = 2 * d THEN 33690
    ELSE 56310

\* line 79: degrees(atan2(y, x)), with C's atan2 on signed zeros:
\* atan2(+-0, +x) = +-0, atan2(+-0, -x) = +-180, also when x is a zero
atan2_degrees(y, x) ==
    IF y.m = 0 THEN (IF x.s = 1 THEN 0 ELSE y.s * 180000)
    ELSE IF x.m = 0 THEN y.s * 90000
    ELSE IF x.s = 1 THEN y.s * AtanDeg(y.m, x.m)
    ELSE y.s * (180000 - AtanDeg(y.m, x.m))

\* line 79 without its normalisation: the angle as atan2 gives it
lon_deg_unnormalised(x, y) == atan2_degrees(y, x)

\* line 79: lon_deg = (degrees(atan2(y, x)) + 360.0) % 360.0
lon_deg(x, y) == (atan2_degrees(y, x) + FullCircle) % FullCircle

\* lines 70-80, for a position the ephemeris gave
ecliptic_longitude(kernel, key, instant, observer) ==
    LET v == observe(kernel, key, instant, observer)
    IN  lon_deg(v[1], v[2])

----------------------------------------------------------------------------
(* compute_asc_mc, lines 82-101 *)

\* t.gast: Greenwich apparent sidereal time, thousandths of an hour in [0, 24)
gast(instant) ==
    (GastEpoch + (instant \div DayMinutes) * GastPerDay
     + ((instant % DayMinutes) * GastPerMinuteE3) \div 1000) % SiderealDay

\* line 90
apparent_sidereal(instant) == gast(instant) * DegPerHour

\* lines 93-94
mc_of(instant) == apparent_sidereal(instant) % FullCircle

\* line 99
asc_of(instant) == (apparent_sidereal(instant) + QuarterCircle) % FullCircle

\* lines 82-101 with line 99 lacking its modulo
compute_asc_mc_unwrapped(instant, lat_deg, lon_deg_) ==
    [asc |-> apparent_sidereal(instant) + QuarterCircle, mc |-> mc_of(instant)]

\* lines 82-101: the location of line 88 is built and never read
compute_asc_mc(instant, lat_deg, lon_deg_) ==
    [asc |-> asc_of(instant), mc |-> mc_of(instant)]


----------------------------------------------------------------------------
(* Responses *)

Pending == [status |-> 0]

\* FastAPI's answer to a request the validators of lines 36-52 reject
Unprocessable == [status |-> 422]

\* lines 117, 123: raise HTTPException(status_code=400, detail=...)
HTTPException(status_code, detail) == [status |-> status_code, detail |-> detail]

\* an exception chart does not catch ends the request without a body
ServerError(exception) == [status |-> 500, error |-> exception]

\* lines 143-157
ChartResponse(r_, asc, mc, planets_) ==
    [status |-> 200,
     body |-> [engine |-> "skyfield_de421",
               input |-> [date |-> r_.date, time |-> r_.time,
                          timezone |-> r_.timezone, lat |-> r_.lat, lon |-> r_.lon],
               chart |-> [asc |-> asc, mc |-> mc, planets |-> planets_]]]

----------------------------------------------------------------------------
(* State machine *)

Init ==
    /\ phase = "importing"
    /\ ts = None
    /\ eph = NoKernel
    /\ pc = [r \in Requests |-> "idle"]
    /\ req = [r \in Requests |-> NoRequest]
    /\ dt_local = [r \in Requests |-> NoTime]
    /\ local_zone = [r \in Requests |-> None]
    /\ t = [r \in Requests |-> NoTime]
    /\ idx = [r \in Requests |-> 0]
    /\ planets = [r \in Requests |-> << >>]
    /\ sampled = [r \in Requests |-> {}]
    /\ resp = [r \in Requests |-> Pending]
    /\ health = [status |-> "none"]

\* lines 11-14: the module body loads the timescale and the ephemeris, once,
\* before the application serves anything
ImportModule ==
    /\ phase = "importing"
    /\ ts' = "timescale"
    /\ \E kernel \in Kernels : eph' = kernel
    /\ phase' = "serving"
    /\ UNCHANGED <<pc, req, dt_local, local_zone, t, idx, planets, sampled, resp, health>>

\* lines 54-56
health_check ==
    /\ phase = "serving"
    /\ health' = [status |-> "ok"]
    /\ UNCHANGED <<phase, ts, eph, pc, req, dt_local, local_zone, t, idx, planets,
                   sampled, resp>>

\* lines 29-52, 103: POST /chart builds the ChartRequest; the validators run
\* before chart is entered, and a rejected body never reaches it
Post(r) ==
    /\ phase = "serving"
    /\ pc[r] = "idle"
    /\ \E input \in ChartRequest :
          /\ req' = [req EXCEPT ![r] = input]
          /\ IF validate_date(input.date) /\ validate_time(input.time)
             THEN /\ pc' = [pc EXCEPT ![r] = "parse"]
                  /\ resp' = resp
             ELSE /\ pc' = [pc EXCEPT ![r] = "done"]
                  /\ resp' = [resp EXCEPT ![r] = Unprocessable]
    /\ UNCHANGED <<phase, ts, eph, dt_local, local_zone, t, idx, planets, sampled, health>>

\* line 104: chart called as a plain function, with a request object the
\* validators have not seen
Call(r) ==
    /\ phase = "serving"
    /\ pc[r] = "idle"
    /\ \E input \in ChartRequest :
          /\ ~ (validate_date(input.date) /\ validate_time(input.time))
          /\ req' = [req EXCEPT ![r] = input]
    /\ pc' = [pc EXCEPT ![r] = "parse"]
    /\ UNCHANGED <<phase, ts, eph, dt_local, local_zone, t, idx, planets, sampled,
                   resp, health>>

\* lines 113-117
ChartParse(r) ==
    /\ pc[r] = "parse"
    /\ IF StrptimeOk(req[r].date, req[r].time)
       THEN /\ dt_local' = [dt_local EXCEPT ![r] = Strptime(req[r].date, req[r].time)]
            /\ pc' = [pc EXCEPT ![r] = "to_utc"]
            /\ resp' = resp
       ELSE /\ resp' = [resp EXCEPT ![r] =
                           HTTPException(400, <<"Invalid date or time format">>)]
            /\ pc' = [pc EXCEPT ![r] = "done"]
            /\ dt_local' = dt_local
    /\ UNCHANGED <<phase, ts, eph, req, local_zone, t, idx, planets, sampled, health>>

\* lines 119-132: to_utc, the Skyfield time, the observer, planets = {}
ChartToUtc(r) ==
    /\ pc[r] = "to_utc"
    /\ local_zone' = [local_zone EXCEPT ![r] = gettz(req[r].timezone)]
    /\ IF to_utc_raises(req[r].timezone)
       THEN /\ resp' = [resp EXCEPT ![r] =
                           HTTPException(400, UnknownTimezoneMessage(req[r].timezone))]
            /\ pc' = [pc EXCEPT ![r] = "done"]
            /\ UNCHANGED <<t, idx, planets>>
       ELSE /\ t' = [t EXCEPT ![r] = from_datetime(to_utc(dt_local[r], req[r].timezone))]
            /\ idx' = [idx EXCEPT ![r] = 1]
            /\ planets' = [planets EXCEPT ![r] = << >>]
            /\ pc' = [pc EXCEPT ![r] = "loop"]
            /\ resp' = resp
    /\ UNCHANGED <<phase, ts, eph, req, dt_local, sampled, health>>

\* the loop with a try/except around its body that skips a body whose
\* lookup or position query raises
ChartLoop_swallow(r) ==
    /\ pc[r] = "loop"
    /\ idx[r] <= Len(PLANET_KEYS)
    /\ LET name == PLANET_KEYS[idx[r]][1]
           key == PLANET_KEYS[idx[r]][2]
       IN  IF lookup_raises(eph, key)
           THEN UNCHANGED <<planets, sampled>>
           ELSE /\ sampled' = [sampled EXCEPT ![r] = @ \cup {<<key, t[r]>>}]
                /\ IF observe_raises(eph, t[r])
                   THEN UNCHANGED planets
                   ELSE planets' = [planets EXCEPT ![r] =
                               (name :> [lon |-> ecliptic_longitude(eph, key, t[r],
                                                                    req[r])]) @@ @]
    /\ idx' = [idx EXCEPT ![r] = @ + 1]
    /\ UNCHANGED <<phase, ts, eph, pc, req, dt_local, local_zone, t, resp, health>>

\* the loop with planets a module-level dict that every handler stores into
ChartLoop_shared_planets(r) ==
    /\ pc[r] = "loop"
    /\ idx[r] <= Len(PLANET_KEYS)
    /\ LET name == PLANET_KEYS[idx[r]][1]
           key == PLANET_KEYS[idx[r]][2]
       IN  IF lookup_raises(eph, key)
           THEN /\ resp' = [resp EXCEPT ![r] = ServerError("KeyError")]
                /\ pc' = [pc EXCEPT ![r] = "done"]
                /\ UNCHANGED <<idx, planets, sampled>>
           ELSE /\ sampled' = [sampled EXCEPT ![r] = @ \cup {<<key, t[r]>>}]
                /\ IF observe_raises(eph, t[r])
                   THEN /\ resp' = [resp EXCEPT ![r] = ServerError("EphemerisRangeError")]
                        /\ pc' = [pc EXCEPT ![r] = "done"]
                        /\ UNCHANGED <<idx, planets>>
                   ELSE /\ planets' = [q \in Requests |->
                               (name :> [lon |-> ecliptic_longitude(eph, key, t[r],
                                                                    req[r])]) @@ planets[r]]
                        /\ idx' = [idx EXCEPT ![r] = @ + 1]
                        /\ UNCHANGED <<pc, resp>>
    /\ UNCHANGED <<phase, ts, eph, req, dt_local, local_zone, t, health>>

\* lines 133-138: one turn of the for loop; an exception of eph[key] or of
\* ecliptic_longitude is not caught and ends the request
ChartLoop(r) ==
    /\ pc[r] = "loop"
    /\ idx[r] <= Len(PLANET_KEYS)
    /\ LET name == PLANET_KEYS[idx[r]][1]
           key == PLANET_KEYS[idx[r]][2]
       IN  IF lookup_raises(eph, key)
           THEN /\ resp' = [resp EXCEPT ![r] = ServerError("KeyError")]
                /\ pc' = [pc EXCEPT ![r] = "done"]
                /\ UNCHANGED <<idx, planets, sampled>>
           ELSE /\ sampled' = [sampled EXCEPT ![r] = @ \cup {<<key, t[r]>>}]
                /\ IF observe_raises(eph, t[r])
                   THEN /\ resp' = [resp EXCEPT ![r] = ServerError("EphemerisRangeError")]
                        /\ pc' = [pc EXCEPT ![r] = "done"]
                        /\ UNCHANGED <<idx, planets>>
                   ELSE /\ planets' = [planets EXCEPT ![r] =
                               (name :> [lon |-> ecliptic_longitude(eph, key, t[r],
                                                                    req[r])]) @@ @]
                        /\ idx' = [idx EXCEPT ![r] = @ + 1]
                        /\ UNCHANGED <<pc, resp>>
    /\ UNCHANGED <<phase, ts, eph, req, dt_local, local_zone, t, health>>

\* lines 140-157
ChartReturn(r) ==
    /\ pc[r] = "loop"
    /\ idx[r] > Len(PLANET_KEYS)
    /\ LET angles == compute_asc_mc(t[r], req[r].lat, req[r].lon)
       IN  resp' = [resp EXCEPT ![r] =
                       ChartResponse(req[r], angles.asc, angles.mc, planets[r])]
    /\ pc' = [pc EXCEPT ![r] = "done"]
    /\ UNCHANGED <<phase, ts, eph, req, dt_local, local_zone, t, idx, planets, sampled,
                   health>>

Next ==
    \/ ImportModule
    \/ health_check
    \/ \E r \in Requests : Post(r)
    \/ \E r \in Requests : Call(r)
    \/ \E r \in Requests : ChartParse(r)
    \/ \E r \in Requests : ChartToUtc(r)
    \/ \E r \in Requests : ChartLoop(r)
    \/ \E r \in Requests : ChartReturn(r)

Spec == Init /\ [][Next]_vars


----------------------------------------------------------------------------
(* Properties *)

TenBodies == {"sun", "moon", "mercury", "venus", "mars", "jupiter", "saturn",
              "uranus", "neptune", "pluto"}

Returned(r) == pc[r] = "done" /\ resp[r].status = 200

\* the chart of a returned response
ChartOf(r) == resp[r].body.chart

\* C1: every chart returned successfully has a planets mapping whose key set
\* is exactly the ten fixed body names, none missing and none extra.
C1_PlanetKeysExact ==
    \A r \in Requests :
        resp[r].status = 200 => DOMAIN ChartOf(r).planets = TenBodies

\* a chart was returned, by a kernel that has all ten bodies
C1_Witness ==
    \E r \in Requests : Returned(r) /\ Cardinality(DOMAIN ChartOf(r).planets) = 10

\* a stage of chart fails for request q on kernel k: the time does not parse,
\* the timezone does not resolve, a body is missing from the kernel or the
\* instant lies outside the kernel's dates
StageFails(q, k) ==
    \/ ~ StrptimeOk(q.date, q.time)
    \/ gettz(q.timezone) = None
    \/ \E i \in 1 .. Len(PLANET_KEYS) : PLANET_KEYS[i][2] \notin k.keys
    \/ LET instant == to_utc(Strptime(q.date, q.time), q.timezone)
       IN  instant < EphStart \/ instant > EphEnd

\* C5: a failure at any stage (time parsing, timezone resolution, the lookup
\* or the position query of any body) fails the whole request: a finished
\* request with a failed stage carries no chart, and a returned chart has a
\* longitude in [0, 360) for each of the ten bodies.
C5_NoPartialChart ==
    \A r \in Requests :
        /\ (pc[r] = "done" /\ StageFails(req[r], eph))
              => (resp[r].status # 200 /\ "body" \notin DOMAIN resp[r])
        /\ resp[r].status = 200
              => \A name \in TenBodies :
                    /\ name \in DOMAIN ChartOf(r).planets
                    /\ DOMAIN ChartOf(r).planets[name] = {"lon"}
                    /\ ChartOf(r).planets[name].lon \in 0 .. (360000 - 1)

\* a request failed at a body in the middle of the loop, after longitudes of
\* earlier bodies had been stored, and returned no chart
C5_Witness ==
    \E r \in Requests :
        /\ pc[r] = "done"
        /\ resp[r].status = 500
        /\ planets[r] # << >>
        /\ idx[r] > 1

\* C7: each longitude of a returned chart lies in [0, 360), and for a body
\* whose position is not the zero vector it is atan2(y, x) in degrees plus
\* 360, modulo 360: it differs from the atan2 angle by a multiple of 360.
C7_LongitudeRange ==
    \A r \in Requests :
        resp[r].status = 200 =>
            \A i \in 1 .. Len(PLANET_KEYS) :
                LET v == observe(eph, PLANET_KEYS[i][2], t[r], req[r])
                    lon == ChartOf(r).planets[PLANET_KEYS[i][1]].lon
                IN  /\ lon >= 0
                    /\ lon < 360000
                    /\ ~ IsZeroVector(v) =>
                          (lon - atan2_degrees(v[2], v[1])) % 360000 = 0

\* a returned chart holds a body whose atan2 angle is exactly 180 degrees,
\* one at exactly -180 degrees and one at another negative angle
C7_Witness ==
    \E r \in Requests :
        /\ Returned(r)
        /\ \E i, j, k \in 1 .. Len(PLANET_KEYS) :
              LET a(n) == LET v == observe(eph, PLANET_KEYS[n][2], t[r], req[r])
                          IN  IF IsZeroVector(v) THEN 0 ELSE atan2_degrees(v[2], v[1])
              IN  /\ a(i) = 180000
                  /\ a(j) = 0 - 180000
                  /\ a(k) < 0 /\ a(k) > 0 - 180000

\* C9: with S the apparent sidereal time in degrees (sidereal hours times
\* 15), a returned chart has mc = S mod 360 and asc = (S + 90) mod 360, both
\* in [0, 360), and asc = (mc + 90) mod 360.
C9_AnglesFromSiderealTime ==
    \A r \in Requests :
        resp[r].status = 200 =>
            LET S == gast(t[r]) * 15
                c == ChartOf(r)
            IN  /\ c.mc = S % 360000
                /\ c.asc = (S + 90000) % 360000
                /\ c.mc >= 0 /\ c.mc < 360000
                /\ c.asc >= 0 /\ c.asc < 360000
                /\ c.asc = (c.mc + 90000) % 360000

\* a chart was returned for an instant whose S + 90 passes 360, so asc wraps
C9_Witness ==
    \E r \in Requests :
        /\ Returned(r)
        /\ gast(t[r]) * 15 + 90000 >= 360000
        /\ ChartOf(r).asc < ChartOf(r).mc


\* what the loop of chart gives request q when it runs alone from body i on
RECURSIVE LoopAlone(_, _, _, _, _)
LoopAlone(i, acc, q, k, instant) ==
    IF i > Len(PLANET_KEYS)
    THEN LET angles == compute_asc_mc(instant, q.lat, q.lon)
         IN  ChartResponse(q, angles.asc, angles.mc, acc)
    ELSE IF lookup_raises(k, PLANET_KEYS[i][2]) THEN ServerError("KeyError")
    ELSE IF observe_raises(k, instant) THEN ServerError("EphemerisRangeError")
    ELSE LoopAlone(i + 1,
                   (PLANET_KEYS[i][1] :>
                       [lon |-> ecliptic_longitude(k, PLANET_KEYS[i][2], instant, q)])
                   @@ acc,
                   q, k, instant)

\* what chart gives request q on kernel k when no other request is served
ChartAlone(q, k) ==
    IF ~ StrptimeOk(q.date, q.time)
    THEN HTTPException(400, <<"Invalid date or time format">>)
    ELSE IF to_utc_raises(q.timezone)
    THEN HTTPException(400, UnknownTimezoneMessage(q.timezone))
    ELSE LoopAlone(1, << >>, q, k, from_datetime(to_utc(Strptime(q.date, q.time),
                                                        q.timezone)))

\* a finished request got what it gets alone: the validators' rejection, or
\* the result of chart
SameAsAlone(r) ==
    \/ resp[r] = ChartAlone(req[r], eph)
    \/ /\ ~ (validate_date(req[r].date) /\ validate_time(req[r].time))
       /\ resp[r] = Unprocessable

\* C8: under any interleaving of concurrently served requests each request
\* returns what it returns when run alone; the timescale and ephemeris
\* handles are set before any request is served and no step of a handler or
\* of the health check changes them afterwards.
C8_RequestsIsolated ==
    /\ [](\A r \in Requests : pc[r] = "done" => SameAsAlone(r))
    /\ [](\A r \in Requests :
             pc[r] # "idle" => (phase = "serving" /\ ts # None /\ eph \in Kernels))
    /\ [][phase = "serving" => (ts' = ts /\ eph' = eph)]_vars

\* two different requests are both in the middle of their loops at once
C8_Witness ==
    /\ pc[1] = "loop" /\ pc[2] = "loop"
    /\ idx[1] > 1 /\ idx[1] <= Len(PLANET_KEYS)
    /\ idx[2] > 1 /\ idx[2] <= Len(PLANET_KEYS)
    /\ t[1] # t[2]
    /\ health.status = "ok"

Null == "null"

\* C2: every chart returned successfully contains the keys houses and
\* true_node, each present with an explicit null value.
C2_HousesAndTrueNodeNull ==
    \A r \in Requests :
        resp[r].status = 200 =>
            /\ "houses" \in DOMAIN ChartOf(r)
            /\ "true_node" \in DOMAIN ChartOf(r)
            /\ ChartOf(r).houses = Null
            /\ ChartOf(r).true_node = Null

\* delta of the motion classification: ((now - prev + 540) mod 360) - 180
MotionDelta(now, prev) == ((now - prev + 540000) % 360000) - 180000

\* C3: for each of the ten bodies the chart operation samples the longitude
\* at the request instant and at the instant one hour of universal time
\* earlier, and stores with the longitude a retrograde flag that is true
\* exactly when the delta of the two longitudes is negative.
C3_RetrogradeFlag ==
    \A r \in Requests :
        resp[r].status = 200 =>
            \A i \in 1 .. Len(PLANET_KEYS) :
                LET key == PLANET_KEYS[i][2]
                    p == ChartOf(r).planets[PLANET_KEYS[i][1]]
                IN  /\ <<key, t[r]>> \in sampled[r]
                    /\ <<key, t[r] - 60>> \in sampled[r]
                    /\ "retrograde" \in DOMAIN p
                    /\ p.retrograde =
                          (MotionDelta(p.lon,
                                       ecliptic_longitude(eph, key, t[r] - 60, req[r])) < 0)

\* C4: a timezone name the lookup cannot resolve fails the request with an
\* unknown-timezone error that carries the name, and no chart is ever
\* computed in a zone other than the one the caller named (never a default
\* such as UTC or the host's local zone).
C4_NoFallbackZone ==
    \A r \in Requests :
        /\ (pc[r] = "done" /\ StrptimeOk(req[r].date, req[r].time)
               /\ gettz(req[r].timezone) = None)
              => (/\ resp[r].status = 400
                  /\ \E n \in 1 .. Len(resp[r].detail) : resp[r].detail[n] = req[r].timezone
                  /\ "body" \notin DOMAIN resp[r])
        /\ resp[r].status = 200 => local_zone[r] = req[r].timezone

\* C6: when the position of a body is the zero vector the longitude
\* reduction fails with DegenerateVector and returns no angle: a request
\* that obtained such a position ends with that error and returns no chart.
C6_DegenerateVectorFails ==
    \A r \in Requests :
        (/\ pc[r] = "done"
         /\ \E i \in 1 .. Len(PLANET_KEYS) :
               /\ PLANET_KEYS[i][1] \in DOMAIN planets[r]
               /\ IsZeroVector(observe(eph, PLANET_KEYS[i][2], t[r], req[r])))
            => (/\ resp[r].status # 200
                /\ "error" \in DOMAIN resp[r]
                /\ resp[r].error = "DegenerateVector")

\* C10: of the observer's coordinates only longitude contributes to the
\* angles: two charts of the same instant have the same asc and mc when
\* their requests differ in latitude only, and different asc and mc when
\* their longitudes differ by a non-multiple of 360 degrees.
C10_OnlyLongitudeContributes ==
    \A r1, r2 \in Requests :
        (resp[r1].status = 200 /\ resp[r2].status = 200 /\ t[r1] = t[r2]) =>
            /\ req[r1].lon = req[r2].lon =>
                  (ChartOf(r1).asc = ChartOf(r2).asc /\ ChartOf(r1).mc = ChartOf(r2).mc)
            /\ (req[r1].lon - req[r2].lon) % 360000 # 0 =>
                  (ChartOf(r1).asc # ChartOf(r2).asc /\ ChartOf(r1).mc # ChartOf(r2).mc)


====
